---- MODULE Spec2Model ----
(***************************************************************************)
(* Model of hassio/misc/gdbus.py: the DBus proxy (class DBus) and the      *)
(* transport it runs every command through (DBus._send, one gdbus process  *)
(* per command).                                                           *)
(*                                                                         *)
(* Text that is formatted and then split by shlex is a sequence of chunks: *)
(* a chunk is a blank " ", a quote "'" or a run of ordinary characters.    *)
(* Bytes read from a process are a sequence of numbers, decoded as UTF-8.  *)
(* Decoded introspection text is a sequence of XML lexemes.                *)
(***************************************************************************)
EXTENDS Integers, Sequences, FiniteSets, TLC

\* Bounds of the model.
MaxOps == 4       \* operations callers start in one behaviour

Flows == {"f1", "f2"}          \* independent callers (asyncio tasks)

----------------------------------------------------------------------------
\* Helpers on sequences.

Range(s) == {s[i] : i \in DOMAIN s}

RECURSIVE Count(_, _)
Count(s, x) ==
    IF s = <<>> THEN 0
    ELSE (IF Head(s) = x THEN 1 ELSE 0) + Count(Tail(s), x)

----------------------------------------------------------------------------
\* Command lines: format, join, shlex.split.

\* A join that puts nothing between the arguments.
RECURSIVE JoinTight(_)
JoinTight(args) ==
    IF args = <<>> THEN <<>> ELSE Head(args) \o JoinTight(Tail(args))

\* " ".join(map(str, args)): the textual form of each argument, in order,
\* separated by one blank.
RECURSIVE Join(_)
Join(args) ==
    IF args = <<>> THEN <<>>
    ELSE IF Len(args) = 1 THEN Head(args)
    ELSE Head(args) \o <<" ">> \o Join(Tail(args))

\* INTROSPECT.format(bus=..., obj=...)
INTROSPECT(bus, obj) ==
    <<"gdbus", " ", "introspect", " ", "--system", " ", "--dest", " ", bus,
      " ", "--object-path", " ", obj, " ", "--xml">>

\* CALL.format(bus=..., obj=..., method=..., args=...)
CALL(bus, obj, method, args) ==
    <<"gdbus", " ", "call", " ", "--system", " ", "--dest", " ", bus, " ",
      "--object-path", " ", obj, " ", "--method", " ", obj, ".", method,
      " ">> \o args

\* shlex.split (POSIX rules) over blanks, single quotes and ordinary runs:
\* blanks outside quotes end a token, a quote opens or closes a quoted part
\* whose blanks are kept, and text that ends inside a quoted part is an
\* error (ValueError: No closing quotation).  tok is the token read so far,
\* started whether one is being read, quoted whether inside quotes.
RECURSIVE Shlex(_, _, _, _, _)
Shlex(text, tok, started, quoted, out) ==
    IF text = <<>> THEN
        IF quoted THEN [ok |-> FALSE, tokens |-> <<>>]
        ELSE [ok |-> TRUE,
              tokens |-> IF started THEN Append(out, tok) ELSE out]
    ELSE LET c == Head(text)
             rest == Tail(text)
         IN  IF c = "'" THEN Shlex(rest, tok, TRUE, ~quoted, out)
             ELSE IF c = " " /\ ~quoted THEN
                 Shlex(rest, "", FALSE,  FALSE,
                       IF started THEN Append(out, tok) ELSE out)
             ELSE Shlex(rest, tok \o c, TRUE, quoted, out)

ShlexSplit(text) == Shlex(text, "", FALSE, FALSE, <<>>)

----------------------------------------------------------------------------
\* Process output: bytes, their UTF-8 decoding, and the XML parse.

\* A byte string is a sequence of numbers, each standing for the UTF-8
\* encoding of one lexeme of the decoded text; 255 stands for bytes that are
\* not valid UTF-8.
Utf8(b) ==
    CASE b = 1 -> "<node>"
      [] b = 2 -> "</node>"
      [] b = 3 -> "<interface>"
      [] b = 4 -> "</interface>"
      [] b = 5 -> "<method name='Foo'>"
      [] b = 6 -> "<method name='Bar'>"
      [] b = 7 -> "</method>"
      [] b = 8 -> "()"
      [] b = 9 -> "('ok',)"
      [] b = 10 -> "\n"
      [] b = 11 -> "<method name='methods'>"

ValidUtf8 == 1..11

\* data.decode(): strict UTF-8, UnicodeDecodeError on any invalid byte.
Decode(data) ==
    IF \E i \in DOMAIN data : data[i] \notin ValidUtf8
    THEN [ok |-> FALSE, text |-> <<>>]
    ELSE [ok |-> TRUE, text |-> [i \in DOMAIN data |-> Utf8(data[i])]]

\* What the XML parser reads in a lexeme: a start tag, an end tag or
\* character data, the element's tag and its name attribute.
Lexeme(t) ==
    CASE t = "<node>" -> [kind |-> "start", tag |-> "node", name |-> ""]
      [] t = "</node>" -> [kind |-> "end", tag |-> "node", name |-> ""]
      [] t = "<interface>" ->
            [kind |-> "start", tag |-> "interface", name |-> ""]
      [] t = "</interface>" ->
            [kind |-> "end", tag |-> "interface", name |-> ""]
      [] t = "<method name='Foo'>" ->
            [kind |-> "start", tag |-> "method", name |-> "Foo"]
      [] t = "<method name='Bar'>" ->
            [kind |-> "start", tag |-> "method", name |-> "Bar"]
      [] t = "<method name='methods'>" ->
            [kind |-> "start", tag |-> "method", name |-> "methods"]
      [] t = "</method>" -> [kind |-> "end", tag |-> "method", name |-> ""]
      [] t = "\n" -> [kind |-> "space", tag |-> "", name |-> ""]
      [] OTHER -> [kind |-> "chars", tag |-> "", name |-> ""]

\* ET.fromstring: the text is well formed when it holds exactly one root
\* element, every end tag closes the innermost open element, and only white
\* space stands outside the root.  open is the stack of open tags, rooted
\* whether the root element has been seen, elems the elements read so far
\* in document order, each with the depth it stands at (the root at 0).
RECURSIVE XmlScan(_, _, _, _)
XmlScan(text, open, rooted, elems) ==
    IF text = <<>> THEN
        [ok |-> rooted /\ open = <<>>, elems |-> elems]
    ELSE LET x == Lexeme(Head(text))
             rest == Tail(text)
             bad == [ok |-> FALSE, elems |-> <<>>]
         IN  CASE x.kind = "start" ->
                    IF open = <<>> /\ rooted THEN bad
                    ELSE XmlScan(rest, Append(open, x.tag), TRUE,
                                 Append(elems, [tag |-> x.tag,
                                                name |-> x.name,
                                                depth |-> Len(open)]))
               [] x.kind = "end" ->
                    IF open = <<>> \/ open[Len(open)] # x.tag THEN bad
                    ELSE XmlScan(rest, SubSeq(open, 1, Len(open) - 1),
                                 rooted, elems)
               [] x.kind = "space" -> XmlScan(rest, open, rooted, elems)
               [] OTHER ->
                    IF open = <<>> THEN bad
                    ELSE XmlScan(rest, open, rooted, elems)

FromString(text) == XmlScan(text, <<>>, FALSE, <<>>)

\* xml.findall(".//method"): the method elements below the root, in
\* document order; and method.get('name') of each.
RECURSIVE FindAllMethod(_)
FindAllMethod(elems) ==
    IF elems = <<>> THEN <<>>
    ELSE (IF Head(elems).tag = "method" /\ Head(elems).depth > 0
          THEN <<Head(elems).name>> ELSE <<>>)
         \o FindAllMethod(Tail(elems))

\* A _gvariant that strips the line end of the output.
GvariantStripped(raw) ==
    IF raw # <<>> /\ raw[Len(raw)] = "\n"
    THEN SubSeq(raw, 1, Len(raw) - 1) ELSE raw

\* DBus._gvariant: the raw text, as it is.
Gvariant(raw) == raw

----------------------------------------------------------------------------
\* The environment and the inputs callers draw from.

\* Remote objects: a bus name and an object path (plain D-Bus names).
Addresses ==
    { [bus_name |-> "org.a", object_path |-> "/a"],
      [bus_name |-> "org.b", object_path |-> "/b"] }

\* What gdbus introspect may print for an object: an interface declaring
\* Foo, Bar and Bar again; a node declaring Foo only; a description cut
\* off before its end tags; and a node declaring methods and Foo.
IntrospectOutputs ==
    { <<1, 3, 5, 7, 6, 7, 6, 7, 4, 2, 10>>,
      <<1, 5, 7, 2>>,
      <<1, 3, 5, 7>>,
      <<1, 11, 7, 5, 7, 2>> }

\* What the bus answers for each address: anything for the first object,
\* the node declaring Foo for the second.
Worlds ==
    { w \in [Addresses -> IntrospectOutputs] :
        /\ w[[bus_name |-> "org.b", object_path |-> "/b"]] = <<1, 5, 7, 2>>
        /\ w[[bus_name |-> "org.a", object_path |-> "/a"]] # <<1, 5, 7, 2>> }

\* What gdbus call may print on success, and what a failing process may
\* have printed before it exits non-zero.
CallOutputs == { <<8, 10>>, <<9, 10>> }
FailOutputs == { <<>>, <<8, 10>> }

\* Remote method names callers try.  Foo, Bar and Baz are looked up through
\* DBus.__getattr__; methods is also the name of the object's own list.
Names == {"Foo", "Bar", "Baz", "methods"}

\* Argument lists callers pass, each argument in its textual form: none,
\* ("a", "2"), and a lone quote.
ArgLists == { <<>>, << <<"a">>, <<"2">> >>, << <<"'">> >> }

ReturnCodes == {0, 1}

----------------------------------------------------------------------------
VARIABLES
    installed,  \* environment: the gdbus executable exists
    bus,        \* environment: what introspection of each address prints
    proxies,    \* the DBus objects constructed so far, in order
    call,       \* per flow, the operation it is in or has just ended
    ops         \* operations started so far

vars == <<installed, bus, proxies, call, ops>>

\* A flow that has not called anything yet.  seq numbers the operations in
\* the order they are started; spawned counts the calls of
\* create_subprocess_exec; proc is the call's process (none, live or
\* exited), returncode and stdout what communicate collected from it.
NoCall ==
    [op |-> "none", seq |-> 0, proxy |-> 0, name |-> "", args |-> <<>>,
     command |-> <<>>, pc |-> "idle", spawned |-> 0, proc |-> "none",
     returncode |-> 0, stdout |-> <<>>, outcome |-> "none",
     value |-> <<>>]

Ended(f) == call[f].pc \in {"idle", "returned", "raised"}

\* Callers are interchangeable: a new operation is started by f1 when f1 is
\* free, and by f2 only while f1 is in a call.
Free(f) == Ended(f) /\ (f = "f2" => ~Ended("f1"))

Returned(c, v) == [c EXCEPT !.pc = "returned", !.outcome = "return",
                            !.value = v]

Raised(c, e) == [c EXCEPT !.pc = "raised", !.outcome = e]

Init ==
    /\ installed \in BOOLEAN
    /\ bus \in Worlds
    /\ proxies = <<>>
    /\ call = [f \in Flows |-> NoCall]
    /\ ops = 0

\* A constructor that stores its two arguments the wrong way round.
NewDBusSwapped(bus_name, object_path) ==
    [bus_name |-> object_path, object_path |-> bus_name, methods |-> <<>>]

\* DBus.__init__
NewDBus(bus_name, object_path) ==
    [bus_name |-> bus_name, object_path |-> object_path, methods |-> <<>>]

\* await DBus.connect(bus_name, object_path): the object is constructed,
\* self._init_proxy() only creates a coroutine that is never awaited, so no
\* line of _init_proxy runs, and the object is returned.  The call's record
\* keeps the two arguments of connect.
Connect(f, a) ==
    /\ Free(f)
    /\ ops < MaxOps
    /\ proxies' = Append(proxies, NewDBus(a.bus_name, a.object_path))
    /\ call' = [call EXCEPT ![f] =
            Returned([NoCall EXCEPT !.op = "connect", !.seq = ops + 1,
                                    !.proxy = Len(proxies) + 1,
                                    !.args = << <<a.bus_name>>,
                                                <<a.object_path>> >>],
                     <<>>)]
    /\ ops' = ops + 1
    /\ UNCHANGED <<installed, bus>>

\* await proxy._init_proxy(), up to the spawn: the introspection command.
InitProxy(f, p) ==
    /\ Free(f)
    /\ ops < MaxOps
    /\ p \in DOMAIN proxies
    /\ LET split == ShlexSplit(INTROSPECT(proxies[p].bus_name,
                                          proxies[p].object_path))
           c == [NoCall EXCEPT !.op = "_init_proxy", !.seq = ops + 1,
                               !.proxy = p]
       IN  call' = [call EXCEPT ![f] =
                IF split.ok
                THEN [c EXCEPT !.pc = "spawn", !.command = split.tokens]
                ELSE Raised(c, "ValueError")]
    /\ ops' = ops + 1
    /\ UNCHANGED <<installed, bus, proxies>>

\* A lookup that finds no attribute on the object itself.
OwnAttributeNever(name) == FALSE

\* Normal attribute lookup on a DBus object: the names set by __init__ and
\* the names the class defines are found on the object, and __getattr__ is
\* not consulted for them.
OwnAttribute(name) ==
    name \in {"bus_name", "object_path", "methods", "connect", "_init_proxy",
              "_gvariant", "_call_dbus", "_send"}

\* A membership test that lets every name through.
KnownAlways(methods, name) == TRUE

\* name in self.methods
Known(methods, name) == name \in Range(methods)

\* An invoke that empties the method table when it refuses a name.
InvokeForgetting(f, p, name, args) ==
    /\ Free(f)
    /\ ops < MaxOps
    /\ p \in DOMAIN proxies
    /\ LET c == [NoCall EXCEPT !.op = "invoke", !.seq = ops + 1,
                               !.proxy = p, !.name = name, !.args = args]
           split == ShlexSplit(CALL(proxies[p].bus_name,
                                    proxies[p].object_path, name,
                                    Join(args)))
       IN  /\ call' = [call EXCEPT ![f] =
                IF OwnAttribute(name)
                THEN Raised(c, "TypeError")
                ELSE IF ~Known(proxies[p].methods, name)
                THEN Raised(c, "AttributeError")
                ELSE IF split.ok
                THEN [c EXCEPT !.pc = "spawn", !.command = split.tokens]
                ELSE Raised(c, "ValueError")]
           /\ proxies' = IF OwnAttribute(name) \/ Known(proxies[p].methods, name)
                         THEN proxies
                         ELSE [proxies EXCEPT ![p].methods = <<>>]
    /\ ops' = ops + 1
    /\ UNCHANGED <<installed, bus>>

\* await getattr(proxy, name)(*args), up to the spawn.  A name found on the
\* object itself yields that attribute, here a data attribute, which is
\* not callable: TypeError.  For any other name __getattr__ rejects a name
\* that is not in self.methods; otherwise _call_dbus builds the call
\* command.
Invoke(f, p, name, args) ==
    /\ Free(f)
    /\ ops < MaxOps
    /\ p \in DOMAIN proxies
    /\ LET c == [NoCall EXCEPT !.op = "invoke", !.seq = ops + 1,
                               !.proxy = p, !.name = name, !.args = args]
           split == ShlexSplit(CALL(proxies[p].bus_name,
                                    proxies[p].object_path, name,
                                    Join(args)))
       IN  call' = [call EXCEPT ![f] =
                IF OwnAttribute(name)
                THEN Raised(c, "TypeError")
                ELSE IF ~Known(proxies[p].methods, name)
                THEN Raised(c, "AttributeError")
                ELSE IF split.ok
                THEN [c EXCEPT !.pc = "spawn", !.command = split.tokens]
                ELSE Raised(c, "ValueError")]
    /\ ops' = ops + 1
    /\ UNCHANGED <<installed, bus, proxies>>

\* _send, asyncio.create_subprocess_exec(*command, ...): the process
\* starts (ok), or OSError is raised and becomes DBusFatalError, which
\* _init_proxy and _call_dbus log and raise again.  Without the gdbus
\* executable every spawn fails; with it a spawn may still fail.
Spawn(f, ok) ==
    /\ call[f].pc = "spawn"
    /\ ok => installed
    /\ call' = [call EXCEPT ![f] =
            IF ok
            THEN [@ EXCEPT !.pc = "communicate", !.proc = "live",
                           !.spawned = @ + 1]
            ELSE Raised([@ EXCEPT !.spawned = @ + 1], "DBusFatalError")]
    /\ UNCHANGED <<installed, bus, proxies, ops>>

\* An exit whose status and output reach every call that is waiting in
\* communicate, whichever process they came from.
ExitShared(f, rc, out) ==
    /\ call[f].pc = "communicate"
    /\ call[f].proc = "live"
    /\ IF rc # 0 THEN out \in FailOutputs
       ELSE IF call[f].op = "_init_proxy"
       THEN out = bus[[bus_name |-> proxies[call[f].proxy].bus_name,
                       object_path |-> proxies[call[f].proxy].object_path]]
       ELSE out \in CallOutputs
    /\ call' = [g \in Flows |->
            IF call[g].pc = "communicate"
            THEN [call[g] EXCEPT !.pc = "reaped", !.proc = "exited",
                                 !.returncode = rc, !.stdout = out]
            ELSE call[g]]
    /\ UNCHANGED <<installed, bus, proxies, ops>>

\* The process of a call prints its output and exits; proc.communicate()
\* has then read all of it and waited for the exit.
Exit(f, rc, out) ==
    /\ call[f].pc = "communicate"
    /\ call[f].proc = "live"
    /\ IF rc # 0 THEN out \in FailOutputs
       ELSE IF call[f].op = "_init_proxy"
       THEN out = bus[[bus_name |-> proxies[call[f].proxy].bus_name,
                       object_path |-> proxies[call[f].proxy].object_path]]
       ELSE out \in CallOutputs
    /\ call' = [call EXCEPT ![f] =
            [@ EXCEPT !.pc = "reaped", !.proc = "exited", !.returncode = rc,
                      !.stdout = out]]
    /\ UNCHANGED <<installed, bus, proxies, ops>>

\* _send, await proc.communicate() raises OSError (reading the pipe of the
\* process fails): it becomes DBusFatalError like a failed spawn, and the
\* process, which nothing has waited for, is left as it is.
CommunicateFails(f) ==
    /\ call[f].pc = "communicate"
    /\ call[f].proc = "live"
    /\ call' = [call EXCEPT ![f] = Raised(@, "DBusFatalError")]
    /\ UNCHANGED <<installed, bus, proxies, ops>>

\* A transport that does not look at the exit status.
SendResultAnyStatus(returncode, data) ==
    IF ~Decode(data).ok
    THEN [outcome |-> "UnicodeDecodeError", text |-> <<>>]
    ELSE [outcome |-> "return", text |-> Decode(data).text]

\* _send after communicate: the outcome of one run, from the exit status
\* and the captured bytes.
SendResult(returncode, data) ==
    IF returncode # 0 THEN [outcome |-> "DBusReturnError", text |-> <<>>]
    ELSE IF ~Decode(data).ok
    THEN [outcome |-> "UnicodeDecodeError", text |-> <<>>]
    ELSE [outcome |-> "return", text |-> Decode(data).text]

\* A method table that keeps each name once.
PopulateUnique(methods, names) ==
    LET all == methods \o names
    IN  SelectSeq([i \in DOMAIN all |->
                    IF \E j \in 1..(i - 1) : all[j] = all[i]
                    THEN "" ELSE all[i]],
                  LAMBDA n : n # "")

\* _init_proxy after _send: self.methods.append(name) for every method
\* element found.
Populate(methods, names) == methods \o names

\* A completion that appends the names found to the table of every proxy.
FinishAll(f) ==
    /\ call[f].pc = "reaped"
    /\ LET c == call[f]
           r == SendResult(c.returncode, c.stdout)
           xml == FromString(r.text)
       IN  IF r.outcome # "return" THEN
               /\ call' = [call EXCEPT ![f] = Raised(c, r.outcome)]
               /\ UNCHANGED proxies
           ELSE IF c.op = "_init_proxy" THEN
               IF ~xml.ok THEN
                   /\ call' = [call EXCEPT ![f] =
                                   Raised(c, "DBusParseError")]
                   /\ UNCHANGED proxies
               ELSE
                   /\ proxies' = [q \in DOMAIN proxies |->
                            [proxies[q] EXCEPT !.methods =
                                Populate(@, FindAllMethod(xml.elems))]]
                   /\ call' = [call EXCEPT ![f] = Returned(c, <<>>)]
           ELSE
               /\ call' = [call EXCEPT ![f] = Returned(c, Gvariant(r.text))]
               /\ UNCHANGED proxies
    /\ UNCHANGED <<installed, bus, ops>>

\* The rest of the call once communicate has returned: _send's result,
\* then _init_proxy parses it and fills self.methods, or _call_dbus returns
\* _gvariant of it.
Finish(f) ==
    /\ call[f].pc = "reaped"
    /\ LET c == call[f]
           r == SendResult(c.returncode, c.stdout)
           xml == FromString(r.text)
       IN  IF r.outcome # "return" THEN
               /\ call' = [call EXCEPT ![f] = Raised(c, r.outcome)]
               /\ UNCHANGED proxies
           ELSE IF c.op = "_init_proxy" THEN
               IF ~xml.ok THEN
                   /\ call' = [call EXCEPT ![f] =
                                   Raised(c, "DBusParseError")]
                   /\ UNCHANGED proxies
               ELSE
                   /\ proxies' = [proxies EXCEPT ![c.proxy].methods =
                            Populate(@, FindAllMethod(xml.elems))]
                   /\ call' = [call EXCEPT ![f] = Returned(c, <<>>)]
           ELSE
               /\ call' = [call EXCEPT ![f] = Returned(c, Gvariant(r.text))]
               /\ UNCHANGED proxies
    /\ UNCHANGED <<installed, bus, ops>>

Next ==
    \/ \E f \in Flows, a \in Addresses : Connect(f, a)
    \/ \E f \in Flows, p \in 1..MaxOps : InitProxy(f, p)
    \/ \E f \in Flows, p \in 1..MaxOps, name \in Names,
          args \in ArgLists : Invoke(f, p, name, args)
    \/ \E f \in Flows, ok \in BOOLEAN : Spawn(f, ok)
    \/ \E f \in Flows, rc \in ReturnCodes,
          out \in IntrospectOutputs \cup CallOutputs \cup FailOutputs :
            Exit(f, rc, out)
    \/ \E f \in Flows : CommunicateFails(f)
    \/ \E f \in Flows : Finish(f)

Spec == Init /\ [][Next]_vars

----------------------------------------------------------------------------
\* Properties of the proxy and the definitions they are stated with.

AddressOf(p) ==
    [bus_name |-> proxies[p].bus_name, object_path |-> proxies[p].object_path]

\* The method names an introspection response declares, in the order of
\* its method elements, read off the response by hand; a response that is
\* not well formed declares nothing.
WellFormed(doc) ==
    doc \in { <<1, 3, 5, 7, 6, 7, 6, 7, 4, 2, 10>>, <<1, 5, 7, 2>>,
              <<1, 11, 7, 5, 7, 2>> }

Declared(doc) ==
    CASE doc = <<1, 3, 5, 7, 6, 7, 6, 7, 4, 2, 10>> -> <<"Foo", "Bar", "Bar">>
      [] doc = <<1, 5, 7, 2>> -> <<"Foo">>
      [] doc = <<1, 11, 7, 5, 7, 2>> -> <<"methods", "Foo">>
      [] OTHER -> <<>>

\* The call command of a method of a proxy, up to the method identifier.
CallPrefix(p, name) ==
    <<"gdbus", "call", "--system", "--dest", proxies[p].bus_name,
      "--object-path", proxies[p].object_path, "--method",
      proxies[p].object_path \o "." \o name>>

IsPrefix(s, t) == Len(s) <= Len(t) /\ SubSeq(t, 1, Len(s)) = s

ConnectReturned(f) ==
    call[f].op = "connect" /\ call[f].outcome = "return"

\* The attribute and operation names of the proxy object itself.
ProxyOwnNames == {"bus_name", "object_path", "methods", "connect"}

\* C1: when connect has returned a proxy for an object whose introspection
\* response is well formed, the proxy's method table holds every method
\* name that response declares.
C1_ConnectReturnsReady ==
    \A f \in Flows :
        ConnectReturned(f) /\ WellFormed(bus[AddressOf(call[f].proxy)]) =>
            Range(Declared(bus[AddressOf(call[f].proxy)]))
                \subseteq Range(proxies[call[f].proxy].methods)

\* C2: invoking a name that the introspection response of the proxy's
\* object declares is accepted, and the command built for it is the call
\* command for the proxy's bus and path with the method identifier
\* <object path>.<name>.
C2_DeclaredNameRouted ==
    \A f \in Flows :
        LET c == call[f] IN
        (/\ c.op = "invoke"
         /\ c.name \in Range(Declared(bus[AddressOf(c.proxy)])))
        => /\ c.outcome # "AttributeError"
           /\ c.outcome # "ValueError" =>
                IsPrefix(CallPrefix(c.proxy, c.name), c.command)

C4_ConnectFailsWithoutTransport ==
    \A f \in Flows :
        call[f].op = "connect" /\ ~installed =>
            call[f].outcome = "DBusFatalError"

\* C5: a connect to an object whose introspection output is not well formed
\* has failed with the parse error.
C5_ConnectFailsOnMalformed ==
    \A f \in Flows :
        call[f].op = "connect" /\ ~WellFormed(bus[AddressOf(call[f].proxy)])
            => call[f].outcome = "DBusParseError"

\* The text of what gdbus call prints, written out by hand.
TextOf(out) ==
    CASE out = <<8, 10>> -> <<"()", "\n">>
      [] out = <<9, 10>> -> <<"('ok',)", "\n">>
      [] OTHER -> <<>>

\* A call that went as far as the transport and has ended.
RanTransport(c) ==
    /\ c.op \in {"_init_proxy", "invoke"}
    /\ c.pc \in {"returned", "raised"}
    /\ c.command # <<>>

\* C6: a transport run that has ended has exactly one of three outcomes:
\* the fatal transport error when no process could be spawned (or its
\* output could not be read), the return-code error and no value when the
\* process exited non-zero, and the decoded output when it exited 0 (which
\* _init_proxy then parses); an invoke of a known method ends with that
\* same outcome.
C6_ThreeOutcomes ==
    \A f \in Flows :
        LET c == call[f] IN
        RanTransport(c) =>
            /\ c.spawned = 1
            /\ c.proc = "none" => c.outcome = "DBusFatalError"
            /\ c.proc # "exited" <=> c.outcome = "DBusFatalError"
            /\ c.proc = "exited" /\ c.returncode # 0 <=>
                    c.outcome = "DBusReturnError"
            /\ c.outcome \in {"DBusFatalError", "DBusReturnError"} =>
                    c.value = <<>>
            /\ c.proc = "exited" /\ c.returncode = 0 =>
                    IF c.op = "invoke"
                    THEN c.outcome = "return"
                         /\ c.value = Decode(c.stdout).text
                    ELSE c.outcome \in {"return", "DBusParseError"}

\* C6 witness: an invoke whose process printed output and exited non-zero
\* has ended with the return-code error and no value.
C6_Witness ==
    \E f \in Flows :
        /\ call[f].op = "invoke"
        /\ call[f].outcome = "DBusReturnError"
        /\ call[f].returncode # 0
        /\ call[f].stdout # <<>>
        /\ call[f].value = <<>>

\* A step in which an invoke of flow f fails.
InvokeFails(f) ==
    /\ call'[f] # call[f]
    /\ call'[f].op = "invoke"
    /\ call'[f].pc = "raised"

\* A step in which flow f starts an invoke of a name of the method table.
InvokesKnown(f) ==
    /\ call'[f].op = "invoke"
    /\ call'[f].seq = ops + 1
    /\ call'[f].name \in Range(proxies[call'[f].proxy].methods)

\* C7: a step in which an invoke fails changes no proxy, neither its
\* address nor its method table; and whatever failed before, an invoke of a
\* name of the method table is accepted and ends as its own process does.
C7_FailedInvokeLeavesProxy ==
    [][\A f \in Flows :
        /\ InvokeFails(f) => proxies' = proxies
        /\ InvokesKnown(f) => call'[f].outcome # "AttributeError"
        /\ (/\ call'[f].op = "invoke"
            /\ call'[f].pc = "returned"
            /\ call[f].pc = "reaped")
           => call[f].returncode = 0 /\ call'[f].value = TextOf(call[f].stdout)
      ]_vars

\* C7 witness: an invoke on a proxy failed, and an invoke started later on
\* the same proxy, of a name of its method table, has returned.
C7_Witness ==
    \E f, g \in Flows :
        /\ call[g].op = "invoke" /\ call[g].pc = "raised"
        /\ call[f].op = "invoke" /\ call[f].pc = "returned"
        /\ call[f].proxy = call[g].proxy
        /\ call[f].seq > call[g].seq
        /\ call[f].name \in Range(proxies[call[f].proxy].methods)

\* C8: a connect that has ended, and an invoke of a known method that has
\* ended, has called for exactly one process.
C8_OneProcessPerCall ==
    \A f \in Flows :
        LET c == call[f] IN
        (/\ c.pc \in {"returned", "raised"}
         /\ \/ c.op = "connect"
            \/ c.op = "invoke" /\ c.outcome # "AttributeError")
        => c.spawned = 1

PlainArgs(args) ==
    \A i \in DOMAIN args :
        Len(args[i]) = 1 /\ args[i][1] \notin {" ", "'"}

C12_InvokesIndependent ==
    /\ [](\A f \in Flows :
            LET c == call[f] IN
            c.op = "invoke" =>
                /\ c.spawned <= 1
                /\ c.outcome = "return" =>
                    /\ c.proc = "exited"
                    /\ c.returncode = 0
                    /\ c.value = Decode(c.stdout).text
                /\ c.outcome = "DBusReturnError" =>
                    c.proc = "exited" /\ c.returncode # 0
                /\ c.pc = "communicate" =>
                    ENABLED (\E out \in CallOutputs : Exit(f, 0, out))
                /\ c.pc = "reaped" => ENABLED Finish(f))
    /\ [][\A f \in Flows :
            call[f].op = "invoke" /\ call'[f] # call[f] =>
                /\ \A g \in Flows \ {f} : call'[g] = call[g]
                /\ (call'[f].seq = call[f].seq => proxies' = proxies)]_vars

\* C12 witness: two invokes on the same proxy are in flight together, and
\* the one started later has returned while the one started first is still
\* waiting for its process.
C12_Witness ==
    \E f \in Flows, g \in Flows :
        /\ call[f].op = "invoke" /\ call[g].op = "invoke"
        /\ call[f].proxy = call[g].proxy
        /\ call[f].seq < call[g].seq
        /\ call[f].pc = "communicate" /\ call[f].proc = "live"
        /\ call[g].outcome = "return" /\ call[g].proc = "exited"

\* A table that is some number of copies of a list of names, one after
\* the other (none when the table is empty).
Repeats(methods, names) ==
    IF names = <<>> THEN methods = <<>>
    ELSE /\ Len(methods) % Len(names) = 0
         /\ \A i \in DOMAIN methods :
                methods[i] = names[((i - 1) % Len(names)) + 1]

\* C13: proxies share no mutable state.  A step changes the fields of at
\* most one proxy, the one the acting call is on, and a connect leaves the
\* proxies that exist as they are; the table of a proxy holds only what the
\* introspection response of its own object declares.
C13_ProxiesIndependent ==
    /\ [](\A p \in DOMAIN proxies :
            Repeats(proxies[p].methods, Declared(bus[AddressOf(p)])))
    /\ [][\A p \in DOMAIN proxies :
            /\ p \in DOMAIN proxies'
            /\ proxies'[p] # proxies[p] =>
                \E f \in Flows :
                    /\ call[f].proxy = p
                    /\ call[f].op = "_init_proxy"
                    /\ call'[f] # call[f]
                    /\ \A q \in DOMAIN proxies \ {p} :
                            proxies'[q] = proxies[q]]_vars

\* C13 witness: two proxies of the same remote object, one with a filled
\* table and one with an empty table, and an invoke on the second of a name
\* the first holds has been refused.
C13_Witness ==
    \E p \in DOMAIN proxies, q \in DOMAIN proxies, f \in Flows :
        /\ p # q
        /\ AddressOf(p) = AddressOf(q)
        /\ proxies[p].methods # <<>>
        /\ proxies[q].methods = <<>>
        /\ call[f].op = "invoke" /\ call[f].proxy = q
        /\ call[f].name \in Range(proxies[p].methods)
        /\ call[f].outcome = "AttributeError"

\* C14: the method table of a proxy is written during connect only: a
\* connect that has returned has run exactly one introspection, and no step
\* after it changes the table of a proxy that connect has returned.
C14_TableWrittenByConnectOnly ==
    /\ [](\A f \in Flows : ConnectReturned(f) => call[f].spawned = 1)
    /\ [][\A p \in DOMAIN proxies :
            proxies'[p].methods = proxies[p].methods]_vars

\* C15: a call that has returned or raised has left no live process behind,
\* and the live processes are never more than the calls in progress.
C15_ProcessesReaped ==
    /\ \A f \in Flows : Ended(f) => call[f].proc # "live"
    /\ Cardinality({f \in Flows : call[f].proc = "live"})
            <= Cardinality({f \in Flows : ~Ended(f)})

\* C16: the address of a proxy is the bus name and object path given to
\* connect and no step changes it; every command built for the proxy, the
\* introspection command and every call command, names exactly that bus
\* name after --dest and that object path after --object-path.
C16_AddressFixed ==
    /\ [](\A f \in Flows :
            LET c == call[f] IN
            /\ c.op = "connect" =>
                /\ proxies[c.proxy].bus_name = c.args[1][1]
                /\ proxies[c.proxy].object_path = c.args[2][1]
            /\ c.command # <<>> =>
                /\ c.command[4] = "--dest"
                /\ c.command[5] = proxies[c.proxy].bus_name
                /\ c.command[6] = "--object-path"
                /\ c.command[7] = proxies[c.proxy].object_path)
    /\ [][\A p \in DOMAIN proxies :
            /\ p \in DOMAIN proxies'
            /\ proxies'[p].bus_name = proxies[p].bus_name
            /\ proxies'[p].object_path = proxies[p].object_path]_vars

\* C16 witness: an introspection command and a call command have both been
\* built for a proxy of the first remote object.
C16_Witness ==
    \E f \in Flows, g \in Flows :
        /\ call[f].op = "_init_proxy" /\ call[f].command # <<>>
        /\ call[g].op = "invoke" /\ call[g].command # <<>>
        /\ call[f].command[5] = "org.a" /\ call[f].command[7] = "/a"
        /\ call[g].command[5] = "org.a" /\ call[g].command[7] = "/a"

====
